---- MODULE Spec2Model ----
(***************************************************************************)
(* Model of the sentiment backtest of src/sentiment.py: the strategy       *)
(* SentimentTrader (get_sentiment, generate_signal, next, notify_order),   *)
(* the transaction and holding rows written by TraderDatabase, and the     *)
(* bar loop of cerebro.run() that BacktestRunner.run_backtest starts.      *)
(*                                                                         *)
(* Money is counted in thousandths of a currency unit (so that the 0.001   *)
(* commission is an integer), prices in whole units, polarity and the      *)
(* sentiment threshold in hundredths.                                      *)
(***************************************************************************)
EXTENDS Integers, Sequences, FiniteSets, TLC

VARIABLES
    pc,                  \* where cerebro.run() stands: "broker", "strategy", "done"
    bar,                 \* len(self.data): bars delivered so far
    close,               \* self.data.close[0]
    cash,                \* self.broker.getcash(), in thousandths
    position,            \* self.position.size
    pending,             \* orders the broker holds for the next bar
    notifs,              \* order notifications not yet handed to notify_order
    order,               \* self.order
    hold_counter,        \* self.hold_counter
    sentiment_threshold, \* self.sentiment_threshold, in hundredths
    hold_days,           \* self.hold_days
    feed,                \* what feedparser.parse gave the last get_sentiment
    score,               \* what the last get_sentiment returned
    signal,              \* what the last generate_signal returned
    transactions,        \* rows of the transactions table
    holdings,            \* rows of the holdings table (one symbol)
    held_bars,           \* strategy steps taken since the open position was opened
    portfolios,          \* rows of the portfolios table; portfolio_id is the index
    portfolio_id,        \* self.portfolio_id of the run
    initial_cash,        \* initial_cash of run_backtest
    next_calls,          \* calls of next() in the run
    result,              \* what the last run_backtest gave its caller
    route,               \* who called run_backtest
    runs,                \* backtests requested so far
    page,                \* the page the web layer returned last
    auto_closed,         \* main.py: the last next() closed the position
    db_call,             \* the last TraderDatabase call and what it gave
    data,                \* what prepare_backtrading gave the last run_backtest
    email                \* the email of the web request being answered

\* The state of one run of the strategy and its broker.
cerebro == <<pc, bar, close, cash, position, pending, notifs, order, hold_counter,
             sentiment_threshold, hold_days, feed, score, signal, held_bars,
             initial_cash, next_calls>>
runvars == <<cerebro, portfolio_id>>

\* The tables of the database.
tables == <<transactions, holdings, portfolios>>

\* What the callers of run_backtest see.
callers == <<result, route, runs, page>>

vars == <<runvars, tables, callers, auto_closed, db_call, data, email>>

----------------------------------------------------------------------------
(* Bounds of the model *)

MaxBars == 4
MaxHoldDays == 2
MaxFeedLen == 11
MaxRuns == 2
MaxRows == 2
MaxRunBars == 2

(* Program constants *)

HeadlineLimit == 10
CashPercent == 95
CommissionPerMille == 1

(* Inputs of a run: open and close prices of a bar, the initial cash, the
   sentiment threshold, hold_days, and the polarity of a headline. *)

Prices == {1, 2}
InitialCash == {2000, 10000}
Thresholds == {-1, 0, 1}
HoldDays == 1..MaxHoldDays
Polarity == {-50, 50}

NoOrder == <<>>

Completed == "Completed"
Canceled == "Canceled"
Rejected == "Rejected"
Statuses == {"Created", "Submitted", "Accepted", "Partial", Completed,
             Canceled, "Expired", "Margin", Rejected}

----------------------------------------------------------------------------
(* Sentiment scoring *)

RECURSIVE SumSeq(_)
SumSeq(s) == IF s = <<>> THEN 0 ELSE Head(s) + SumSeq(Tail(s))

Take(s, n) == SubSeq(s, 1, IF Len(s) < n THEN Len(s) ELSE n)

\* Mutation: the slice [:10] is dropped.
Entries_unbounded(f) == f.entries

Entries(f) == Take(f.entries, HeadlineLimit)

Zero == [num |-> 0, den |-> 1]

\* The score is the exact quotient num / den.
get_sentiment(f) ==
    IF ~f.ok THEN Zero
    ELSE LET sentiments == Entries(f)
         IN IF sentiments # <<>>
            THEN [num |-> SumSeq(sentiments), den |-> Len(sentiments)]
            ELSE Zero

\* Mutation: the comparison is >= instead of >.
generate_signal_ge(f, threshold) ==
    LET sc == get_sentiment(f)
    IN IF sc.num >= threshold * sc.den THEN "buy" ELSE "hold"

\* Mutation: the score is compared with the magnitude of the threshold.
generate_signal_abs(f, threshold) ==
    LET sc == get_sentiment(f)
        t == IF threshold < 0 THEN -threshold ELSE threshold
    IN IF sc.num > t * sc.den THEN "buy" ELSE "hold"

generate_signal(f, threshold) ==
    LET sc == get_sentiment(f)
    IN IF sc.num > threshold * sc.den THEN "buy" ELSE "hold"

FeedError == [ok |-> FALSE, entries |-> <<>>]
Feed(s) == [ok |-> TRUE, entries |-> s]
RunFeeds == {FeedError, Feed(<<>>), Feed(<<50>>), Feed(<<-50>>)}

----------------------------------------------------------------------------
(* Helpers of the simulated broker *)

Trunc(n, d) == IF n >= 0 THEN n \div d ELSE -((-n) \div d)

\* Mutation: all of the cash is used instead of 95% of it.
BuySize_all_cash(c, price) == Trunc(c * 100, price * 100 * 1000)

BuySize(c, price) == Trunc(c * CashPercent, price * 100 * 1000)

Commission(size, price) == size * price * CommissionPerMille

BuyCost(size, price) == size * price * 1000 + Commission(size, price)

SellProceeds(size, price) == size * price * 1000 - Commission(size, price)

\* run_backtest adds no sizer to cerebro, so an order submitted without a
\* size, as self.sell() is, gets the stake of the engine's default sizer.
getsizing == 1

MarketOrder(isbuy, size, price) == [isbuy |-> isbuy, size |-> size, price |-> price]

\* What the broker does with a submitted market order on the next bar, whose
\* open is o: the statuses it notifies and the cash and position it leaves.
BrokerExecute(ord, o, c, p) ==
    IF ord.isbuy
    THEN IF BuyCost(ord.size, ord.price) > c
         THEN [notify |-> <<"Margin">>, cash |-> c, position |-> p]
         ELSE IF BuyCost(ord.size, o) > c
         THEN [notify |-> <<"Accepted", "Margin">>, cash |-> c, position |-> p]
         ELSE [notify |-> <<"Accepted", Completed>>,
               cash |-> c - BuyCost(ord.size, o), position |-> p + ord.size]
    ELSE [notify |-> <<"Accepted", Completed>>,
          cash |-> c + SellProceeds(ord.size, o), position |-> p - ord.size]

----------------------------------------------------------------------------
(* TraderDatabase *)

Holding(pid, quantity, avg_price) ==
    [portfolio_id |-> pid, quantity |-> quantity, avg_price |-> avg_price]

\* The row of the portfolio is updated when there is one, inserted otherwise.
update_holding(rows, pid, quantity, avg_price, up) ==
    IF ~up THEN rows
    ELSE IF \E i \in DOMAIN rows : rows[i].portfolio_id = pid
    THEN [i \in DOMAIN rows |->
            IF rows[i].portfolio_id = pid
            THEN Holding(pid, quantity, avg_price) ELSE rows[i]]
    ELSE Append(rows, Holding(pid, quantity, avg_price))

BuyRow(pid, quantity, price) ==
    [portfolio_id |-> pid, quantity |-> quantity, price |-> price,
     tx_type |-> "buy"]

\* Mutation: the quantity of a sell is written unsigned.
SellRow_unsigned(pid, quantity, price) ==
    [portfolio_id |-> pid, quantity |-> quantity, price |-> price,
     tx_type |-> "sell"]

SellRow(pid, quantity, price) ==
    [portfolio_id |-> pid, quantity |-> -quantity, price |-> price,
     tx_type |-> "sell"]

\* up: the insert reaches the table; otherwise the exception is swallowed.
execute_buy_order(rows, pid, quantity, price, up) ==
    IF up THEN Append(rows, BuyRow(pid, quantity, price)) ELSE rows

execute_sell_order(rows, pid, quantity, price, up) ==
    IF up THEN Append(rows, SellRow(pid, quantity, price)) ELSE rows

----------------------------------------------------------------------------
(* SentimentTrader *)

\* Mutation: Rejected is left out of the list.
ClearingStatuses_no_rejected == {Completed, Canceled}

ClearingStatuses == {Completed, Canceled, Rejected}

\* Mutation: a completed order does not clear the flag.
notify_order_not_completed(ord, status) ==
    IF status \in {Canceled, Rejected} THEN NoOrder ELSE ord

notify_order(ord, status) ==
    IF status \in ClearingStatuses THEN NoOrder ELSE ord

\* Mutation: the hold period ends one bar early.
HoldExpired_early(counter, days) == counter >= days - 1

\* Mutation: the counter is compared with > instead of >=.
HoldExpired_late(counter, days) == counter > days

HoldExpired(counter, days) == counter >= days

----------------------------------------------------------------------------
(* BacktestRunner.run_backtest: what it gives its caller *)

Outcome(kind, pid, ic, fv, tr, rp, detail) ==
    [kind |-> kind, portfolio_id |-> pid, initial_cash |-> ic,
     final_value |-> fv, total_return |-> tr, return_percentage |-> rp,
     detail |-> detail]

NoResult == Outcome("pending", 0, 0, 0, 0, Zero, "")
ReturnsNone == Outcome("None", 0, 0, 0, 0, Zero, "")
Raises(message) == Outcome("raised", 0, 0, 0, 0, Zero, message)

\* Mutation: the value of the open position is left out.
getvalue_cash_only(c, p, price) == c

\* cerebro.broker.getvalue(): the cash and the open position at the close.
getvalue(c, p, price) == c + p * price * 1000

\* The quotient (total_return / initial_cash) * 100, kept exact.
return_percentage(tr, ic) == [num |-> tr * 100, den |-> ic]

\* The results computed after cerebro.run(); the division raises when
\* initial_cash is 0.
backtest_result(pid, ic, c, p, price) ==
    IF ic = 0
    THEN Raises("division by zero")
    ELSE LET final_value == getvalue(c, p, price)
             total_return == final_value - ic
         IN Outcome("result", pid, ic, final_value, total_return,
                    return_percentage(total_return, ic), "")

NoPage == [kind |-> "none", detail |-> ""]
NoCall == [op |-> "none", up |-> TRUE, raised |-> FALSE, returned |-> "none"]

\* The test portfolio of setup_test_environment.
TestPortfolioCash == 10000
TestEmail == "test@example.com"
NoEmail == ""

\* A row of the portfolios table; the user of user_id is named by the email.
Portfolio(user, cash_balance) == [user_id |-> user, cash_balance |-> cash_balance]

----------------------------------------------------------------------------
(* One run, from the set-up of cerebro to the results *)

Init ==
    /\ pc = "broker"
    /\ bar = 0
    /\ close = 0
    /\ cash \in InitialCash
    /\ position = 0
    /\ pending = <<>>
    /\ notifs = <<>>
    /\ order = NoOrder
    /\ hold_counter = 0
    /\ sentiment_threshold \in Thresholds
    /\ hold_days \in HoldDays
    /\ feed = Feed(<<>>)
    /\ score = Zero
    /\ signal = "hold"
    /\ transactions = <<>>
    /\ holdings = <<>>
    /\ held_bars = 0
    /\ portfolios = <<Portfolio(TestEmail, TestPortfolioCash * 1000)>>
    /\ portfolio_id = 1
    /\ initial_cash = cash
    /\ next_calls = 0
    /\ result = NoResult
    /\ route = "direct"
    /\ runs = 1
    /\ page = NoPage
    /\ auto_closed = FALSE
    /\ db_call = NoCall
    /\ data = "bars"
    /\ email = NoEmail

\* Mutation: next does not look at the order flag.
in_flight_ignored(ord) == FALSE

\* `if self.order` at the top of next.
in_flight(ord) == ord # NoOrder

\* Mutation: the data does not move on to the next bar.
NextBar_stuck(b) == b

NextBar(b) == b + 1

\* One bar of cerebro.run(), of a data of at most limit bars: the broker takes
\* the new bar and executes what was submitted on the bar before, at the new
\* bar's open.
BrokerStep(limit, prices) ==
    /\ pc = "broker"
    /\ bar < limit
    /\ \E o \in prices, c \in prices :
        /\ bar' = NextBar(bar)
        /\ close' = c
        /\ IF pending = <<>>
           THEN UNCHANGED <<cash, position, notifs>>
           ELSE LET r == BrokerExecute(Head(pending), o, cash, position)
                IN /\ cash' = r.cash
                   /\ position' = r.position
                   /\ notifs' = notifs \o r.notify
    /\ pending' = <<>>
    /\ pc' = "strategy"
    /\ UNCHANGED <<order, hold_counter, sentiment_threshold, hold_days, feed,
                   score, signal, held_bars, portfolio_id, initial_cash,
                   next_calls, tables, callers, auto_closed, db_call, data, email>>

BrokerNext == BrokerStep(MaxBars, Prices)

\* The strategy is handed one order notification.
NotifyOrder ==
    /\ pc = "strategy"
    /\ notifs # <<>>
    /\ order' = notify_order(order, Head(notifs))
    /\ notifs' = Tail(notifs)
    /\ UNCHANGED <<pc, bar, close, cash, position, pending, hold_counter,
                   sentiment_threshold, hold_days, feed, score, signal,
                   held_bars, portfolio_id, initial_cash, next_calls, tables,
                   callers, auto_closed, db_call, data, email>>

hold_counter_if_recorded(counter, recorded) == IF recorded THEN 0 ELSE counter

\* The hold counter after next() has submitted an order and called
\* execute_buy_order / execute_sell_order, which return None when the write
\* failed: the return value is not looked at.
hold_counter_reset(counter, recorded) == 0

\* SentimentTrader.next on the current bar.
StrategyNext ==
    /\ pc = "strategy"
    /\ notifs = <<>>
    /\ pc' = "broker"
    /\ next_calls' = next_calls + 1
    /\ held_bars' = IF position # 0 THEN held_bars + 1 ELSE 0
    /\ IF in_flight(order)
       THEN UNCHANGED <<pending, notifs, order, hold_counter, feed, score,
                        signal, transactions, holdings>>
       ELSE \E f \in RunFeeds, txup \in BOOLEAN, hup \in BOOLEAN :
            LET sig == generate_signal(f, sentiment_threshold)
                size == BuySize(cash, close)
                sell == MarketOrder(FALSE, getsizing, close)
                buy == MarketOrder(TRUE, size, close)
            IN /\ feed' = f
               /\ score' = get_sentiment(f)
               /\ signal' = sig
               /\ IF position # 0
                  THEN IF HoldExpired(hold_counter + 1, hold_days)
                       THEN /\ order' = <<sell>>
                            /\ pending' = Append(pending, sell)
                            /\ notifs' = <<"Submitted">>
                            /\ transactions' =
                                 execute_sell_order(transactions, portfolio_id, position,
                                                    close, txup)
                            /\ hold_counter' = hold_counter_reset(hold_counter + 1, txup)
                            /\ UNCHANGED holdings
                       ELSE /\ hold_counter' = hold_counter + 1
                            /\ UNCHANGED <<pending, notifs, order, transactions,
                                           holdings>>
                  ELSE IF sig = "buy" /\ size > 0
                       THEN /\ order' = <<buy>>
                            /\ pending' = Append(pending, buy)
                            /\ notifs' = <<"Submitted">>
                            /\ transactions' =
                                 execute_buy_order(transactions, portfolio_id, size,
                                                   close, txup)
                            /\ holdings' =
                                 IF txup
                                 THEN update_holding(holdings, portfolio_id, size,
                                                     close, hup)
                                 ELSE holdings
                            /\ hold_counter' = hold_counter_reset(hold_counter, txup)
                       ELSE UNCHANGED <<pending, notifs, order, hold_counter,
                                        transactions, holdings>>
    /\ UNCHANGED <<bar, close, cash, position, sentiment_threshold, hold_days,
                   portfolio_id, initial_cash, portfolios, callers, auto_closed,
                   db_call, data, email>>

\* cerebro.run() returns after the last bar of the data and run_backtest
\* computes the results.
Stop ==
    /\ pc = "broker"
    /\ bar >= 1
    /\ pc' = "done"
    /\ result' = backtest_result(portfolio_id, initial_cash, cash, position, close)
    /\ UNCHANGED <<bar, close, cash, position, pending, notifs, order,
                   hold_counter, sentiment_threshold, hold_days, feed, score,
                   signal, held_bars, portfolio_id, initial_cash, next_calls,
                   tables, route, runs, page, auto_closed, db_call, data, email>>

Next == BrokerNext \/ NotifyOrder \/ StrategyNext \/ Stop

Spec == Init /\ [][Next]_vars

----------------------------------------------------------------------------
(* Backtests requested one after the other through the web layer: the
   /run_backtest route of app.py, which runs on a new test portfolio, and the
   /trade route of frontend.py, which runs on an existing portfolio. *)

DefaultInitialCash == 10000
DefaultThreshold == 1
PortfolioHoldDays == 30

\* The prices of the bars of these runs.
RunPrices == {1}

\* The emails of the forms of app.py; the requests of RunsSpec are the test
\* user's.
RunEmails == {TestEmail}
Emails == {TestEmail, "a@example.com"}

\* The portfolio of a request that got none: setup_test_environment or
\* get_portfolio_by_id returned None.
None == 0

\* yf.download gives bars, gives nothing, or raises.
Downloads == {"bars", "empty", "raises"}

FailedPage == [kind |-> "failed", detail |-> ""]
NotFoundPage == [kind |-> "not found", detail |-> ""]
ResultsPage == [kind |-> "results", detail |-> ""]
ErrorPage(message) == [kind |-> "error", detail |-> message]

\* Mutation: the page of a failure never shows the error.
result_page_generic(res) ==
    IF res.kind = "result" THEN ResultsPage ELSE FailedPage

\* The page execute_backtest and trade build from what run_backtest gave.
result_page(res) ==
    IF res.kind = "result" THEN ResultsPage
    ELSE IF res.kind = "raised" THEN ErrorPage(res.detail)
    ELSE FailedPage

\* Mutation: the delete is not restricted to the portfolio.
clean_rows_all(rows, pid) == <<>>

clean_rows(rows, pid) == SelectSeq(rows, LAMBDA r : r.portfolio_id # pid)

\* The two deletes of clean_test_data; done of them succeed before one fails.
clean_test_data(txs, hs, pid, done) ==
    [transactions |-> IF done >= 1 THEN clean_rows(txs, pid) ELSE txs,
     holdings |-> IF done >= 2 THEN clean_rows(hs, pid) ELSE hs]

\* Mutation: the previous data is cleaned for every portfolio.
cleans_always(existing) == TRUE

\* run_backtest cleans only when no existing_portfolio_id is given.
cleans(existing) == ~existing

\* Mutation: the counter and the order flag of the strategy before are kept.
SentimentTrader_init_kept(before) == before

\* SentimentTrader.__init__ of the strategy cerebro instantiates for the run.
SentimentTrader_init(before) == [hold_counter |-> 0, order |-> NoOrder]

update_portfolio_cash(rows, pid, cash_value, up) ==
    IF up /\ pid \in DOMAIN rows
    THEN [rows EXCEPT ![pid].cash_balance = cash_value]
    ELSE rows

\* Mutation: the return of the run is persisted instead of its final value.
persisted_cash_return(res) == res.total_return

\* The cash balance the trade route persists after a run.
persisted_cash(res) == res.final_value

\* run_backtest from its set-up of cerebro on: a new broker with the initial
\* cash and a new strategy.
SetUpCerebro(pid, ic, threshold, days) ==
    LET strategy == SentimentTrader_init([hold_counter |-> hold_counter,
                                          order |-> order])
    IN /\ pc' = "broker"
       /\ bar' = 0
       /\ close' = 0
       /\ cash' = ic
       /\ position' = 0
       /\ pending' = <<>>
       /\ notifs' = <<>>
       /\ order' = strategy.order
       /\ hold_counter' = strategy.hold_counter
       /\ sentiment_threshold' = threshold
       /\ hold_days' = days
       /\ feed' = Feed(<<>>)
       /\ score' = Zero
       /\ signal' = "hold"
       /\ held_bars' = 0
       /\ portfolio_id' = pid
       /\ initial_cash' = ic
       /\ next_calls' = 0

\* Mutation: an empty download is not noticed.
empty_unnoticed(d) == FALSE

\* data.empty of the frame prepare_backtrading returned.
empty(d) == d = "empty"

\* run_backtest(symbol, ..., existing_portfolio_id) up to cerebro.run(), or up
\* to its return when it does not get that far. created: the test portfolio
\* could be created; done: the deletes of clean_test_data that succeed.
run_backtest(existing, pid, ic, threshold, days, created, done, download) ==
    IF ~existing /\ ~created
    THEN /\ result' = ReturnsNone
         /\ page' = result_page(ReturnsNone)
         /\ portfolio_id' = None
         /\ data' = "none"
         /\ UNCHANGED <<cerebro, tables>>
    ELSE LET id == IF existing THEN pid ELSE Len(portfolios) + 1
             cleaned == IF cleans(existing)
                        THEN clean_test_data(transactions, holdings, id, done)
                        ELSE [transactions |-> transactions,
                              holdings |-> holdings]
         IN /\ portfolios' = IF existing THEN portfolios
                              ELSE Append(portfolios,
                                          Portfolio(TestEmail, TestPortfolioCash * 1000))
            /\ transactions' = cleaned.transactions
            /\ holdings' = cleaned.holdings
            /\ IF download = "raises"
               THEN /\ result' = Raises("download failed")
                    /\ page' = result_page(Raises("download failed"))
                    /\ portfolio_id' = id
                    /\ data' = "none"
                    /\ UNCHANGED cerebro
               ELSE IF empty(download)
               THEN /\ result' = ReturnsNone
                    /\ page' = result_page(ReturnsNone)
                    /\ portfolio_id' = id
                    /\ data' = download
                    /\ UNCHANGED cerebro
               ELSE /\ result' = NoResult
                    /\ page' = NoPage
                    /\ data' = download
                    /\ SetUpCerebro(id, ic, threshold, days)

\* Mutation: run_portfolio_backtest leaves initial_cash at its default.
portfolio_cash_default(portfolio) == DefaultInitialCash * 1000

\* The initial_cash run_portfolio_backtest passes: portfolio['cash_balance'].
portfolio_cash(portfolio) == portfolio.cash_balance

\* POST /run_backtest of app.py: execute_backtest calls run_backtest without
\* a portfolio and without the email of the form.
execute_backtest(emails) ==
    /\ pc = "idle"
    /\ runs < MaxRuns
    /\ runs' = runs + 1
    /\ route' = "run_backtest"
    /\ email' \in emails
    /\ \E threshold \in Thresholds, days \in HoldDays, created \in BOOLEAN,
          done \in 0..2, download \in Downloads :
          run_backtest(FALSE, 0, DefaultInitialCash * 1000, threshold, days, created,
                       done, download)
    /\ UNCHANGED <<auto_closed, db_call>>

RequestBacktest == execute_backtest(RunEmails)

\* /trade/{portfolio_id}?ticker= of frontend.py: trade looks the portfolio
\* up and calls run_portfolio_backtest, which looks it up again and calls
\* run_backtest with its cash balance.
RequestTrade ==
    /\ pc = "idle"
    /\ runs < MaxRuns
    /\ runs' = runs + 1
    /\ route' = "trade"
    /\ email' = NoEmail
    /\ \E pid \in 1..(Len(portfolios) + 1), up1 \in BOOLEAN, up2 \in BOOLEAN,
          done \in 0..2, download \in Downloads :
          IF ~(up1 /\ pid \in DOMAIN portfolios)
          THEN /\ page' = NotFoundPage
               /\ result' = NoResult
               /\ portfolio_id' = None
               /\ data' = "none"
               /\ UNCHANGED <<cerebro, tables>>
          ELSE IF ~up2
          THEN /\ result' = ReturnsNone
               /\ page' = result_page(ReturnsNone)
               /\ portfolio_id' = None
               /\ data' = "none"
               /\ UNCHANGED <<cerebro, tables>>
          ELSE run_backtest(TRUE, pid, portfolio_cash(portfolios[pid]),
                            DefaultThreshold, PortfolioHoldDays, TRUE, done,
                            download)
    /\ UNCHANGED <<auto_closed, db_call>>

\* The route builds its page from the results; the trade route first
\* persists the final value as the cash balance of the portfolio.
Respond ==
    /\ pc = "done"
    /\ route \in {"run_backtest", "trade"}
    /\ pc' = "idle"
    /\ page' = result_page(result)
    /\ \E up \in BOOLEAN :
          portfolios' =
            IF route = "trade" /\ result.kind = "result"
            THEN update_portfolio_cash(portfolios, portfolio_id,
                                       persisted_cash(result), up)
            ELSE portfolios
    /\ UNCHANGED <<bar, close, cash, position, pending, notifs, order,
                   hold_counter, sentiment_threshold, hold_days, feed, score,
                   signal, held_bars, portfolio_id, initial_cash, next_calls,
                   transactions, holdings, result, route, runs, auto_closed,
                   db_call, data, email>>

RunsInit ==
    /\ pc = "idle"
    /\ bar = 0
    /\ close = 0
    /\ cash = 0
    /\ position = 0
    /\ pending = <<>>
    /\ notifs = <<>>
    /\ order = NoOrder
    /\ hold_counter = 0
    /\ sentiment_threshold = DefaultThreshold
    /\ hold_days = 1
    /\ feed = Feed(<<>>)
    /\ score = Zero
    /\ signal = "hold"
    /\ transactions = <<>>
    /\ holdings = <<>>
    /\ held_bars = 0
    /\ portfolios = <<>>
    /\ portfolio_id = 0
    /\ initial_cash = 0
    /\ next_calls = 0
    /\ result = NoResult
    /\ route = "none"
    /\ runs = 0
    /\ page = NoPage
    /\ auto_closed = FALSE
    /\ db_call = NoCall
    /\ data = "none"
    /\ email = NoEmail

RunBrokerNext == BrokerStep(MaxRunBars, RunPrices)

RunsNext ==
    \/ RequestBacktest
    \/ RequestTrade
    \/ RunBrokerNext
    \/ NotifyOrder
    \/ StrategyNext
    \/ Stop
    \/ Respond

RunsSpec == RunsInit /\ [][RunsNext]_vars

----------------------------------------------------------------------------
(* The pages of app.py that take the email of a user: backtests requested
   by several users, and the transactions page of a user. *)

\* .eq('email', email) on the transactions table: the rows whose email
\* column is the email; execute_buy_order and execute_sell_order write rows
\* without one.
eq_email(rows, e) ==
    SelectSeq(rows, LAMBDA row : "email" \in DOMAIN row /\ row.email = e)

TransactionsPage(rows) == [kind |-> "transactions", detail |-> "", rows |-> rows]

\* /transactions?email= of app.py.
transactions_page ==
    /\ pc = "idle"
    /\ \E e \in Emails :
          /\ email' = e
          /\ page' = TransactionsPage(eq_email(transactions, e))
    /\ route' = "transactions"
    /\ UNCHANGED <<runvars, tables, result, runs, auto_closed, db_call, data>>

WebInit == RunsInit

WebRequest == execute_backtest(Emails)

WebNext ==
    \/ WebRequest
    \/ transactions_page
    \/ RunBrokerNext
    \/ NotifyOrder
    \/ StrategyNext
    \/ Stop
    \/ Respond

WebSpec == WebInit /\ [][WebNext]_vars

----------------------------------------------------------------------------
(* Backtests requested one after the other through the trade route on a
   portfolio that exists, created by /create_portfolio of app.py with the
   cash balance of its form. *)

CashBalances == {0} \cup InitialCash

TradeInit ==
    /\ pc = "idle"
    /\ bar = 0
    /\ close = 0
    /\ cash = 0
    /\ position = 0
    /\ pending = <<>>
    /\ notifs = <<>>
    /\ order = NoOrder
    /\ hold_counter = 0
    /\ sentiment_threshold = DefaultThreshold
    /\ hold_days = 1
    /\ feed = Feed(<<>>)
    /\ score = Zero
    /\ signal = "hold"
    /\ transactions = <<>>
    /\ holdings = <<>>
    /\ held_bars = 0
    /\ \E cash_balance \in CashBalances :
          portfolios = <<Portfolio(TestEmail, cash_balance)>>
    /\ portfolio_id = None
    /\ initial_cash = 0
    /\ next_calls = 0
    /\ result = NoResult
    /\ route = "none"
    /\ runs = 0
    /\ page = NoPage
    /\ auto_closed = FALSE
    /\ db_call = NoCall
    /\ data = "none"
    /\ email = NoEmail

TradeBrokerNext == BrokerStep(MaxRunBars, Prices)

TradeNext ==
    \/ RequestTrade
    \/ TradeBrokerNext
    \/ NotifyOrder
    \/ StrategyNext
    \/ Stop
    \/ Respond

TradeSpec == TradeInit /\ [][TradeNext]_vars

----------------------------------------------------------------------------
(* The operations of TraderDatabase called one after the other, each with
   its database call succeeding or raising. *)

DbOps ==
    {"create_user", "get_user_by_email", "get_user_by_id", "create_portfolio",
     "get_user_portfolios", "update_portfolio_cash", "get_portfolio_holdings",
     "get_portfolio_by_id", "transactions_by_portfolio", "update_holding",
     "add_stock", "remove_stock", "execute_buy_order", "execute_sell_order"}

PortfolioIds == {1, 2}

\* The value of the except branch of an operation.
except_return(op) ==
    IF op = "get_portfolio_holdings" THEN "{}"
    ELSE IF op = "transactions_by_portfolio" THEN "set()"
    ELSE "None"

\* The value of the try branch: the data of the result when there is some.
try_return(op, found) ==
    IF op = "execute_sell_order" THEN "None"
    ELSE IF op \in {"create_user", "create_portfolio", "execute_buy_order",
                    "update_holding"}
    THEN "data"
    ELSE IF found THEN "data" ELSE except_return(op)

\* The statements of the try block raise: the database call fails; in
\* add_stock, the insert that is never executed has no data; in remove_stock
\* no row was deleted; in create_portfolio no user has the email.
raises_in_try(op, up, found) ==
    \/ ~up
    \/ op = "add_stock"
    \/ op \in {"remove_stock", "create_portfolio"} /\ ~found

\* Mutation: the exception of the try block leaves the operation.
db_operation_unguarded(op, up, found) ==
    [op |-> op, up |-> up, raised |-> raises_in_try(op, up, found),
     returned |-> IF raises_in_try(op, up, found) THEN "none"
                  ELSE try_return(op, found)]

\* An operation: its body in try, and except Exception returning a default.
db_operation(op, up, found) ==
    [op |-> op, up |-> up, raised |-> FALSE,
     returned |-> IF raises_in_try(op, up, found) THEN except_return(op)
                  ELSE try_return(op, found)]

\* The operations that take a portfolio_id, and those that look up a row of
\* a table that is not modelled (users, watchlist).
TakesPortfolio ==
    {"update_portfolio_cash", "get_portfolio_holdings", "get_portfolio_by_id",
     "transactions_by_portfolio", "update_holding", "execute_buy_order",
     "execute_sell_order"}
LooksUpOther ==
    {"get_user_by_email", "get_user_by_id", "create_portfolio",
     "get_user_portfolios", "remove_stock"}

\* Whether the operation finds the row it looks up; known: the row of a
\* table that is not modelled exists.
Found(op, pid, known) ==
    IF op \in {"get_portfolio_by_id", "update_portfolio_cash"}
    THEN pid \in DOMAIN portfolios
    ELSE IF op = "transactions_by_portfolio"
    THEN \E i \in DOMAIN transactions : transactions[i].portfolio_id = pid
    ELSE IF op = "get_portfolio_holdings"
    THEN \E i \in DOMAIN holdings : holdings[i].portfolio_id = pid
    ELSE IF op \in LooksUpOther THEN known
    ELSE TRUE

DbCall ==
    \E op \in DbOps, pid \in PortfolioIds, up \in BOOLEAN, hup \in BOOLEAN,
       known \in BOOLEAN :
        \* an argument the operation does not take is not varied
        /\ op \notin TakesPortfolio => pid = 1
        /\ op \notin LooksUpOther => known
        /\ op # "execute_buy_order" => hup
        /\ op \in {"execute_buy_order", "execute_sell_order"}
             => Len(transactions) < MaxRows
        /\ op = "create_portfolio" => Len(portfolios) < Cardinality(PortfolioIds)
        /\ db_call' = db_operation(op, up, Found(op, pid, known))
        /\ portfolios' =
             IF op = "create_portfolio" /\ up /\ known
             THEN Append(portfolios, Portfolio(TestEmail, TestPortfolioCash * 1000))
             ELSE IF op = "update_portfolio_cash"
             THEN update_portfolio_cash(portfolios, pid, 0, up)
             ELSE portfolios
        /\ transactions' =
             IF op = "execute_buy_order"
             THEN execute_buy_order(transactions, pid, 1, 1, up)
             ELSE IF op = "execute_sell_order"
             THEN execute_sell_order(transactions, pid, 1, 1, up)
             ELSE transactions
        /\ holdings' =
             IF op = "execute_buy_order" /\ up
             THEN update_holding(holdings, pid, 1, 1, hup)
             ELSE IF op = "update_holding"
             THEN update_holding(holdings, pid, 1, 1, up)
             ELSE holdings
        /\ UNCHANGED <<runvars, callers, auto_closed, data, email>>

DbInit ==
    /\ pc = "db"
    /\ bar = 0
    /\ close = 0
    /\ cash = 0
    /\ position = 0
    /\ pending = <<>>
    /\ notifs = <<>>
    /\ order = NoOrder
    /\ hold_counter = 0
    /\ sentiment_threshold = DefaultThreshold
    /\ hold_days = 1
    /\ feed = Feed(<<>>)
    /\ score = Zero
    /\ signal = "hold"
    /\ transactions = <<>>
    /\ holdings = <<>>
    /\ held_bars = 0
    /\ portfolios = <<>>
    /\ portfolio_id = 0
    /\ initial_cash = 0
    /\ next_calls = 0
    /\ result = NoResult
    /\ route = "none"
    /\ runs = 0
    /\ page = NoPage
    /\ auto_closed = FALSE
    /\ db_call = NoCall
    /\ data = "none"
    /\ email = NoEmail

DbNext == DbCall

DbSpec == DbInit /\ [][DbNext]_vars

----------------------------------------------------------------------------
(* run_strategy of main.py: a run of SentimentBacktrader, which submits
   orders of the default stake, keeps no order flag and has no notify_order,
   with the SentimentTrader of main.py giving the signal. *)

MainInitialCash == 10000
MainThreshold == 1

\* generate_signal of main.py's SentimentTrader.
main_generate_signal(f, threshold) ==
    LET s == get_sentiment(f)
    IN IF s.num * 100 > threshold * s.den THEN "buy"
       ELSE IF s.num * 100 < (-threshold) * s.den THEN "sell"
       ELSE "hold"

\* The broker executes the submitted orders one after the other.
RECURSIVE ExecuteAll(_, _, _, _)
ExecuteAll(orders, o, c, p) ==
    IF orders = <<>> THEN [cash |-> c, position |-> p]
    ELSE LET r == BrokerExecute(Head(orders), o, c, p)
         IN ExecuteAll(Tail(orders), o, r.cash, r.position)

\* self.close(): an order of the size of the position, against it.
close_order(p, price) ==
    MarketOrder(p < 0, IF p < 0 THEN -p ELSE p, price)

\* len(self.data) on bar b: the number of bars the data has delivered so far.
len_data(b) == b

\* len(self.data.close) on bar b: the length of a line of the data, which
\* advances with the data.
len_data_close(b) == b

MainBrokerNext ==
    /\ pc = "broker"
    /\ bar < MaxBars
    /\ \E o \in Prices, c \in Prices :
        LET r == ExecuteAll(pending, o, cash, position)
        IN /\ bar' = NextBar(bar)
           /\ close' = c
           /\ cash' = r.cash
           /\ position' = r.position
    /\ pending' = <<>>
    /\ pc' = "strategy"
    /\ UNCHANGED <<notifs, order, hold_counter, sentiment_threshold, hold_days,
                   feed, score, signal, held_bars, portfolio_id, initial_cash,
                   next_calls, tables, callers, auto_closed, db_call, data, email>>

\* SentimentBacktrader.next on the current bar.
MainStrategyNext ==
    /\ pc = "strategy"
    /\ pc' = "broker"
    /\ next_calls' = next_calls + 1
    /\ \E f \in RunFeeds :
        LET sig == main_generate_signal(f, sentiment_threshold)
            first == IF sig = "buy" /\ position = 0
                     THEN <<MarketOrder(TRUE, getsizing, close)>>
                     ELSE IF sig = "sell" /\ position # 0
                     THEN <<MarketOrder(FALSE, getsizing, close)>>
                     ELSE <<>>
            closes == len_data(bar) = len_data_close(bar) /\ position # 0
        IN /\ feed' = f
           /\ score' = get_sentiment(f)
           /\ signal' = sig
           /\ pending' = IF closes
                         THEN first \o <<close_order(position, close)>>
                         ELSE first
           /\ auto_closed' = closes
    /\ UNCHANGED <<bar, close, cash, position, notifs, order, hold_counter,
                   sentiment_threshold, hold_days, held_bars, portfolio_id,
                   initial_cash, tables, callers, db_call, data, email>>

\* cerebro.run() returns after the last bar of the data.
MainStop ==
    /\ pc = "broker"
    /\ bar >= 1
    /\ pc' = "done"
    /\ result' = backtest_result(portfolio_id, initial_cash, cash, position, close)
    /\ UNCHANGED <<bar, close, cash, position, pending, notifs, order,
                   hold_counter, sentiment_threshold, hold_days, feed, score,
                   signal, held_bars, portfolio_id, initial_cash, next_calls,
                   tables, route, runs, page, auto_closed, db_call, data, email>>

MainInit ==
    /\ pc = "broker"
    /\ bar = 0
    /\ close = 0
    /\ cash = MainInitialCash * 1000
    /\ position = 0
    /\ pending = <<>>
    /\ notifs = <<>>
    /\ order = NoOrder
    /\ hold_counter = 0
    /\ sentiment_threshold = MainThreshold
    /\ hold_days = 1
    /\ feed = Feed(<<>>)
    /\ score = Zero
    /\ signal = "hold"
    /\ transactions = <<>>
    /\ holdings = <<>>
    /\ held_bars = 0
    /\ portfolios = <<>>
    /\ portfolio_id = 0
    /\ initial_cash = cash
    /\ next_calls = 0
    /\ result = NoResult
    /\ route = "main"
    /\ runs = 1
    /\ page = NoPage
    /\ auto_closed = FALSE
    /\ db_call = NoCall
    /\ data = "bars"
    /\ email = NoEmail

MainNext == MainBrokerNext \/ MainStrategyNext \/ MainStop

MainSpec == MainInit /\ [][MainNext]_vars

----------------------------------------------------------------------------
(* get_sentiment on its own: a feed of any length up to MaxFeedLen, or a
   fetch that raises, is scored once. *)

FeedInit ==
    /\ pc = "feed"
    /\ feed \in {FeedError, Feed(<<>>)}
    /\ sentiment_threshold \in Thresholds
    /\ bar = 0
    /\ close = 0
    /\ cash \in InitialCash
    /\ position = 0
    /\ pending = <<>>
    /\ notifs = <<>>
    /\ order = NoOrder
    /\ hold_counter = 0
    /\ hold_days \in HoldDays
    /\ score = Zero
    /\ signal = "hold"
    /\ transactions = <<>>
    /\ holdings = <<>>
    /\ held_bars = 0
    /\ portfolios = <<Portfolio(TestEmail, TestPortfolioCash * 1000)>>
    /\ portfolio_id = 1
    /\ initial_cash = cash
    /\ next_calls = 0
    /\ result = NoResult
    /\ route = "direct"
    /\ runs = 1
    /\ page = NoPage
    /\ auto_closed = FALSE
    /\ db_call = NoCall
    /\ data = "none"
    /\ email = NoEmail

\* The feed has one more headline.
AddEntry ==
    /\ pc = "feed"
    /\ feed.ok
    /\ Len(feed.entries) < MaxFeedLen
    /\ \E p \in Polarity : feed' = Feed(Append(feed.entries, p))
    /\ UNCHANGED <<pc, bar, close, cash, position, pending, notifs, order,
                   hold_counter, sentiment_threshold, hold_days, score, signal,
                   held_bars, portfolio_id, initial_cash, next_calls, tables,
                   callers, auto_closed, db_call, data, email>>

\* SentimentTrader.generate_signal, which calls get_sentiment.
FetchSentiment ==
    /\ pc = "feed"
    /\ score' = get_sentiment(feed)
    /\ signal' = generate_signal(feed, sentiment_threshold)
    /\ pc' = "scored"
    /\ UNCHANGED <<bar, close, cash, position, pending, notifs, order,
                   hold_counter, sentiment_threshold, hold_days, feed,
                   held_bars, portfolio_id, initial_cash, next_calls, tables,
                   callers, auto_closed, db_call, data, email>>

FeedNext == AddEntry \/ FetchSentiment

FeedSpec == FeedInit /\ [][FeedNext]_vars

----------------------------------------------------------------------------
(* notify_order on its own: the handler is called with an order of every
   status, whatever the strategy's state. *)

NotifyInit ==
    /\ pc = "strategy"
    /\ notifs \in {<<st>> : st \in Statuses}
    /\ order \in {NoOrder, <<MarketOrder(TRUE, 1, 1)>>, <<MarketOrder(FALSE, 1, 1)>>}
    /\ hold_counter \in 0..MaxHoldDays
    /\ position \in {0, 1}
    /\ hold_days \in HoldDays
    /\ sentiment_threshold \in Thresholds
    /\ bar = 1
    /\ close = 1
    /\ cash \in InitialCash
    /\ pending = <<>>
    /\ feed = Feed(<<>>)
    /\ score = Zero
    /\ signal = "hold"
    /\ transactions = <<>>
    /\ holdings = <<>>
    /\ held_bars = 0
    /\ portfolios = <<Portfolio(TestEmail, TestPortfolioCash * 1000)>>
    /\ portfolio_id = 1
    /\ initial_cash = cash
    /\ next_calls = 0
    /\ result = NoResult
    /\ route = "direct"
    /\ runs = 1
    /\ page = NoPage
    /\ auto_closed = FALSE
    /\ db_call = NoCall
    /\ data = "none"
    /\ email = NoEmail

NotifyNext == NotifyOrder

NotifySpec == NotifyInit /\ [][NotifyNext]_vars

----------------------------------------------------------------------------
(* Properties *)

\* The step about to be taken is SentimentTrader.next.
StrategyStep == pc = "strategy" /\ notifs = <<>>

\* The step about to be taken is the broker executing a submitted order.
ExecutionStep == pc = "broker" /\ pending # <<>>

Flat == position = 0
Holding_ == position # 0

ScoreAbove(sc, threshold) == sc.num > threshold * sc.den

Last(q) == q[Len(q)]

\* next() submitted an order on this step.
Submits == pending' # pending
SubmitsBuy == Submits /\ Last(pending').isbuy
SubmitsSell == Submits /\ ~Last(pending').isbuy

\* C1 (as claimed): on every bar with no open position and no in-flight
\* order, a score strictly above the threshold makes next() submit a buy
\* order and leaves the hold counter at 0, whatever the cash and the close.
C1_BuyWheneverScoreAbove ==
    [][(StrategyStep /\ Flat /\ order = NoOrder
            /\ ScoreAbove(score', sentiment_threshold))
         => (SubmitsBuy /\ order' # NoOrder /\ hold_counter' = 0)]_vars

\* C1 (amended): on such a bar a score strictly above the threshold makes
\* next() submit a buy order exactly when 95% of the cash buys at least one
\* share at the close; otherwise nothing is submitted. The hold counter is 0
\* afterwards in both cases.
C1_BuyWhenAffordable ==
    [][(StrategyStep /\ Flat /\ order = NoOrder
            /\ ScoreAbove(score', sentiment_threshold))
         => /\ hold_counter' = 0
            /\ IF 95 * cash >= 100 * (close * 1000)
               THEN SubmitsBuy /\ order' = <<Last(pending')>>
               ELSE ~Submits /\ order' = NoOrder]_vars

\* A buy was submitted on a flat bar with a score above the threshold.
C1_Witness ==
    /\ pc = "broker"
    /\ ScoreAbove(score, sentiment_threshold)
    /\ order # NoOrder
    /\ pending # <<>>
    /\ Last(pending).isbuy
    /\ hold_counter = 0

\* C2 (as claimed): the sell submitted when the hold counter reaches
\* hold_days liquidates the whole position: once the broker has executed it
\* the position size is 0.
C2_SellLiquidates ==
    [][(ExecutionStep /\ ~Head(pending).isbuy /\ pc' = "strategy")
         => position' = 0]_vars

\* C3: while a position is open, every next() adds exactly 1 to the hold
\* counter, except on the bar where it reaches hold_days and is reset to 0.
C3_CounterStepsByOne ==
    [][(StrategyStep /\ Holding_)
         => hold_counter' = IF hold_counter + 1 >= hold_days
                            THEN 0 ELSE hold_counter + 1]_vars

\* A position is open and the counter has been stepped without expiring.
C3_Witness ==
    /\ pc = "broker"
    /\ Holding_
    /\ hold_counter = 1
    /\ hold_days = 2

\* C4: the size of every buy order is floor(0.95 * cash / close): size * close
\* is at most 95% of the cash at submission, and one more share is not.
C4_BuySizeIsFloor ==
    [][(StrategyStep /\ SubmitsBuy)
         => LET size == Last(pending').size
            IN /\ size >= 1
               /\ 100 * (size * close * 1000) <= 95 * cash
               /\ 100 * ((size + 1) * close * 1000) > 95 * cash]_vars

\* A buy of more than one share is waiting at the broker.
C4_Witness ==
    /\ pc = "broker"
    /\ pending # <<>>
    /\ Last(pending).isbuy
    /\ Last(pending).size > 1

\* C5: notify_order clears self.order for the statuses Completed, Canceled
\* and Rejected and leaves it as it is for every other status.
C5_NotifyClearsOnFinal ==
    [][(pc = "strategy" /\ notifs # <<>>)
         => /\ Head(notifs) \in {"Completed", "Canceled", "Rejected"}
                => order' = <<>>
            /\ Head(notifs) \in {"Created", "Submitted", "Accepted", "Partial",
                                 "Expired", "Margin"}
                => order' = order
            /\ UNCHANGED <<hold_counter, position, cash, transactions>>]_vars

\* notify_order has been called with a status that leaves the flag set.
C5_Witness ==
    /\ pc = "strategy"
    /\ notifs = <<>>
    /\ order # NoOrder

\* C6: a buy is submitted only on a bar with no open position and a score
\* above the threshold; a sell only on a bar with an open position whose
\* counter has reached hold_days, whatever the score.
C6_OrdersFitState ==
    [][StrategyStep
         => /\ SubmitsBuy => Flat /\ ScoreAbove(score', sentiment_threshold)
            /\ SubmitsSell => Holding_ /\ hold_counter + 1 >= hold_days
            /\ (Holding_ /\ hold_counter + 1 < hold_days) => ~Submits]_vars

\* A sell has been submitted on a bar whose score was not above the threshold.
C6_Witness ==
    /\ pc = "broker"
    /\ pending # <<>>
    /\ ~Last(pending).isbuy
    /\ ~ScoreAbove(score, sentiment_threshold)

\* C7 (as claimed): no position is seen open by more than hold_days + 1
\* consecutive strategy steps.
C7_LiquidatedInTime == held_bars <= hold_days + 1

RECURSIVE SumTo(_, _)
SumTo(q, n) == IF n = 0 THEN 0 ELSE q[n] + SumTo(q, n - 1)

\* C8: the score get_sentiment returns is the arithmetic mean of the first
\* ten headlines' polarity (of all of them when there are fewer), and 0 for
\* a feed without headlines.
C8_MeanOfFirstTen ==
    (pc = "scored" /\ feed.ok)
      => LET n == Len(feed.entries)
             k == IF n > 10 THEN 10 ELSE n
         IN /\ score.den > 0
            /\ IF n = 0
               THEN score.num = 0
               ELSE score.num * k = SumTo(feed.entries, k) * score.den

\* A feed of more than ten headlines was scored, whose eleventh headline
\* differs from the ten before it.
C8_Witness ==
    /\ pc = "scored"
    /\ feed.ok
    /\ Len(feed.entries) > 10
    /\ \A i \in 1..10 : feed.entries[i] = 50
    /\ feed.entries[11] = -50

\* C9: when the fetch raises, get_sentiment returns 0; with a threshold >= 0
\* the signal of that bar is 'hold', no buy is submitted, and the run goes on
\* to the next bar.
C9_ErrorIsNeutral ==
    [][(StrategyStep /\ order = NoOrder /\ ~feed'.ok)
         => /\ score'.num = 0
            /\ pc' = "broker"
            /\ sentiment_threshold >= 0 => (signal' = "hold" /\ ~SubmitsBuy)]_vars

\* A fetch has failed on a flat bar of a run whose threshold is not negative.
C9_Witness ==
    /\ pc = "broker"
    /\ bar >= 1
    /\ bar < MaxBars
    /\ ~feed.ok
    /\ Flat
    /\ order = NoOrder
    /\ sentiment_threshold >= 0

\* C10: a row written while submitting a buy has a positive quantity and
\* tx_type 'buy'; a row written while submitting a sell has a negative
\* quantity and tx_type 'sell'; nothing else writes a row.
C10_SignedQuantities ==
    [][(StrategyStep /\ transactions' # transactions)
         => /\ Submits
            /\ Len(transactions') = Len(transactions) + 1
            /\ LET row == Last(transactions')
               IN /\ SubmitsBuy => (row.tx_type = "buy" /\ row.quantity > 0)
                  /\ SubmitsSell => (row.tx_type = "sell" /\ row.quantity < 0)]_vars

\* The table holds the row of a buy followed by the row of a sell.
C10_Witness ==
    /\ Len(transactions) >= 2
    /\ transactions[1].tx_type = "buy"
    /\ transactions[2].tx_type = "sell"

\* The sum of the signed quantities of the transaction rows of a portfolio.
SignedQuantity(rows, pid) ==
    SumSeq([i \in DOMAIN rows |->
              IF rows[i].portfolio_id = pid THEN rows[i].quantity ELSE 0])

\* C13: a holding is derived from the transactions: the quantity of every
\* holding row is the sum of the signed quantities of the transaction rows
\* of its portfolio (all rows of a run are of the one symbol of the run).
C13_HoldingIsSumOfTransactions ==
    \A i \in DOMAIN holdings :
        holdings[i].quantity =
            SignedQuantity(transactions, holdings[i].portfolio_id)

Remaining ==
    IF pc = "done" THEN -1
    ELSE IF pc = "broker" THEN 6 * (MaxBars - bar)
    ELSE 6 * (MaxBars - bar) + 1 + Len(notifs)

\* C18: a backtest is a single pass: next is called once on every bar, the
\* k-th call on the k-th bar; each step of the run leaves less of it to do,
\* and the run cannot stop anywhere but after a bar, with cerebro.run()
\* returning.
C18_SinglePass ==
    /\ [](pc = "done" \/ ENABLED Next)
    /\ [](next_calls = IF pc = "strategy" THEN bar - 1 ELSE bar)
    /\ [][/\ Remaining' < Remaining
          /\ next_calls' # next_calls
               => (next_calls' = bar /\ next_calls' = next_calls + 1)
          /\ bar' # bar => bar' = bar + 1]_vars

\* A run over as many bars as the bound allows has returned.
C18_Witness ==
    /\ pc = "done"
    /\ bar = MaxBars
    /\ next_calls = MaxBars

----------------------------------------------------------------------------
(* Properties of runs requested one after the other *)

\* A run requested through the web layer starts.
RunStarts == pc = "idle" /\ pc' = "broker"

\* C11: the transactions table is an append-only log: over any sequence of
\* runs, on new portfolios and on existing ones, every row that has been
\* written stays in the table as it was written.
C11_TransactionsAppendOnly ==
    [][\A i \in DOMAIN transactions :
         /\ i \in DOMAIN transactions'
         /\ transactions'[i] = transactions[i]]_vars

\* A second run, on a new portfolio, has started while the table held the
\* rows of the run before it.
C11_Witness ==
    /\ runs = 2
    /\ route = "run_backtest"
    /\ pc = "broker"
    /\ bar = 0
    /\ Len(transactions) > 0

\* A run is between its first bar and the return of cerebro.run().
Running == pc \in {"broker", "strategy"}

\* C12 (as stated): the persisted cash balance follows the simulated trades:
\* while a run holds a position it has bought, the cash balance of the run's
\* portfolio row is no longer the cash the run started with.
C12_CashBalanceFollowsTrades ==
    (Running /\ route = "trade" /\ position # 0)
        => portfolios[portfolio_id].cash_balance # initial_cash

\* C12 (amended): no step of a run changes the cash balance of a portfolio
\* row; the only change is made by the trade route after a run has returned
\* results, and sets the balance of the run's portfolio to the final value.
C12_CashBalanceSetAfterRun ==
    [][\A p \in DOMAIN portfolios :
         /\ p \in DOMAIN portfolios'
         /\ portfolios'[p].cash_balance # portfolios[p].cash_balance
              => /\ pc = "done"
                 /\ route = "trade"
                 /\ result.kind = "result"
                 /\ p = portfolio_id
                 /\ portfolios'[p].cash_balance = result.final_value]_vars

\* The trade route has answered a run that traded, and the portfolio row
\* holds the final value of the run instead of the cash it started with.
C12_Witness ==
    /\ pc = "idle"
    /\ route = "trade"
    /\ result.kind = "result"
    /\ Len(transactions) > 0
    /\ result.final_value # result.initial_cash
    /\ portfolios[portfolio_id].cash_balance = result.final_value

----------------------------------------------------------------------------
(* Properties of the operations of TraderDatabase *)

\* C15: no operation of TraderDatabase lets an exception out: when its
\* database call fails, the operation returns its default value (None, an
\* empty set or an empty dict) to the caller.
C15_NoExceptionPropagates ==
    /\ ~db_call.raised
    /\ (db_call.op # "none" /\ ~db_call.up)
         => /\ db_call.returned \in {"None", "set()", "{}"}
            /\ db_call.op = "transactions_by_portfolio"
                 => db_call.returned = "set()"
            /\ db_call.op = "get_portfolio_holdings"
                 => db_call.returned = "{}"

\* A read has failed on a database that holds rows of the portfolio.
C15_Witness ==
    /\ db_call.op = "transactions_by_portfolio"
    /\ ~db_call.up
    /\ Len(transactions) > 0
    /\ db_call.returned = "set()"

----------------------------------------------------------------------------
(* Properties of the pages of the web layer *)

\* The route has answered a request whose backtest failed.
AnsweredFailure == pc = "idle" /\ result.kind \in {"None", "raised"}

\* C16 (as stated): when a backtest requested through the web layer fails,
\* by returning None or by raising, the page returned is the generic failure
\* page and carries no detail of the error.
C16_FailurePageIsGeneric ==
    AnsweredFailure => (page.kind = "failed" /\ page.detail = "")

\* C16 (amended): when run_backtest returns None the page is the generic
\* failure page without detail; when it raises, the page is an error page
\* that shows the message of the exception.
C16_FailurePageByOutcome ==
    AnsweredFailure
        => /\ result.kind = "None" => page = FailedPage
           /\ result.kind = "raised"
                => /\ page.kind = "error"
                   /\ page.detail = result.detail
                   /\ page.detail # ""

\* The second request has been answered with a page showing the message of
\* the exception run_backtest raised.
C16_Witness ==
    /\ pc = "idle"
    /\ runs = 2
    /\ result.kind = "raised"
    /\ page = ErrorPage(result.detail)

----------------------------------------------------------------------------
(* Properties of the strategy state across runs *)

\* C17: every run starts with hold counter 0, no in-flight order and no
\* position (and nothing queued at the broker), whatever the strategy and
\* the broker of the run before ended with.
C17_RunStartsFresh ==
    [][RunStarts
         => /\ hold_counter' = 0
            /\ order' = NoOrder
            /\ position' = 0
            /\ pending' = <<>>
            /\ notifs' = <<>>
            /\ bar' = 0]_vars

\* A second run has started, in the fresh state, after a run that recorded a
\* buy and then a sell: the sell, submitted on the bar after the buy's, was
\* the run's in-flight order when it ended with its position still open.
C17_Witness ==
    /\ runs = 2
    /\ pc = "broker"
    /\ bar = 0
    /\ hold_counter = 0
    /\ order = NoOrder
    /\ position = 0
    /\ Len(transactions) = 2
    /\ transactions[2].tx_type = "sell"

\* A step of a run on an existing portfolio, from its request to its return.
ExistingPortfolioStep ==
    \/ pc = "idle" /\ route' = "trade"
    \/ Running /\ route = "trade"

\* C20: a run on an existing portfolio deletes no transaction row and no
\* holding row, of that portfolio or of another, and creates no portfolio
\* row.
C20_ExistingPortfolioKept ==
    [][ExistingPortfolioStep
         => /\ \A i \in DOMAIN transactions :
                 /\ i \in DOMAIN transactions'
                 /\ transactions'[i] = transactions[i]
            /\ \A i \in DOMAIN holdings :
                 \E j \in DOMAIN holdings' :
                     holdings'[j].portfolio_id = holdings[i].portfolio_id
            /\ Len(portfolios') = Len(portfolios)]_vars

\* A run on an existing portfolio has recorded a buy after the buy an
\* earlier run had recorded for the same portfolio.
C20_Witness ==
    /\ runs = 2
    /\ route = "trade"
    /\ pc = "done"
    /\ Len(portfolios) = 1
    /\ Len(holdings) = 1
    /\ Len(transactions) >= 2
    /\ transactions[1].tx_type = "buy"
    /\ transactions[2].tx_type = "buy"
    /\ transactions[1].portfolio_id = portfolio_id
    /\ transactions[2].portfolio_id = portfolio_id

----------------------------------------------------------------------------
(* Properties of SentimentBacktrader of main.py *)

\* C19: the automatic close of an open position happens only on the final
\* bar of the data: after a bar on which next has closed the position
\* automatically, the data has no further bar.
C19_AutoCloseOnlyOnFinalBar ==
    [][(pc = "broker" /\ auto_closed) => bar' = bar]_vars

----------------------------------------------------------------------------
(* Properties of the early returns of run_backtest and run_portfolio_backtest *)

\* A request calls run_backtest or run_portfolio_backtest: every request but
\* the one the trade route answers itself, with its page for a portfolio it
\* does not find.
CallsBacktest == pc = "idle" /\ runs' = runs + 1 /\ page' # NotFoundPage

\* C21: when the portfolio of the run is not obtained (the test portfolio
\* cannot be set up, or run_portfolio_backtest does not find the portfolio)
\* or the downloaded data is empty, the call returns None, no run starts, no
\* order is submitted and no transaction is recorded.
C21_NothingRunsWithoutPortfolioOrData ==
    [][(CallsBacktest /\ (portfolio_id' = None \/ data' = "empty"))
         => /\ result' = ReturnsNone
            /\ pc' = "idle"
            /\ next_calls' = next_calls
            /\ pending' = pending
            /\ order' = order
            /\ transactions' = transactions]_vars

\* A request on a database that holds transactions has found the data empty.
C21_Witness ==
    /\ pc = "idle"
    /\ data = "empty"
    /\ result = ReturnsNone
    /\ Len(transactions) > 0

----------------------------------------------------------------------------
(* Properties of the trade route *)

\* The cash balance of the portfolio of the run.
CashBalance == portfolios[portfolio_id].cash_balance

\* C22 (as stated): after the trade route has answered a backtest that
\* returned a result, the cash balance of the portfolio is the final value of
\* that run.
C22_CashBalanceIsFinalValue ==
    (pc = "idle" /\ route = "trade" /\ result.kind = "result")
        => CashBalance = result.final_value

\* C22 (amended): answering a backtest that returned a result, the trade
\* route sets the cash balance of the portfolio to the final value, or, when
\* that update fails, leaves it; a backtest that returns None or raises
\* leaves every cash balance; and a run through the trade route starts with
\* the cash balance of its portfolio as initial cash.
C22_CashBalanceCarriedOver ==
    [][/\ (pc = "done" /\ route = "trade")
            => IF result.kind = "result"
               THEN /\ CashBalance' \in {result.final_value, CashBalance}
                    /\ \A p \in DOMAIN portfolios :
                           p # portfolio_id => portfolios'[p] = portfolios[p]
               ELSE portfolios' = portfolios
       /\ (pc = "idle" /\ pc' = "idle") => portfolios' = portfolios
       /\ (RunStarts /\ route' = "trade")
            => /\ initial_cash' = portfolios[portfolio_id'].cash_balance
               /\ cash' = initial_cash'
               /\ portfolios' = portfolios]_vars

\* A second run on the portfolio has started with the final value of the
\* first, which is not the balance the portfolio was created with.
C22_Witness ==
    /\ runs = 2
    /\ route = "trade"
    /\ pc = "broker"
    /\ bar = 0
    /\ initial_cash = CashBalance
    /\ initial_cash \notin CashBalances

----------------------------------------------------------------------------
(* Properties of the in-flight order of SentimentTrader *)

\* C23: every order the strategy submits is resolved within the run: when
\* cerebro.run() has returned, the in-flight order flag is set only for an
\* order submitted on the last bar, which the broker has not been given a
\* bar to execute; for every order the broker has dealt with, the flag has
\* been cleared.
C23_OrdersResolved ==
    (pc = "done" /\ order # NoOrder) => pending # <<>>

\* C24: at most one order is in flight at any time, and a strategy step
\* taken while the in-flight order flag is set submits no order, writes no
\* transaction or holding, fetches no sentiment and leaves the hold counter
\* and the flag as they are.
C24_BlockedWhileInFlight ==
    /\ [](Len(pending) <= 1)
    /\ [][(StrategyStep /\ order # NoOrder)
            => /\ pending' = pending
               /\ transactions' = transactions
               /\ holdings' = holdings
               /\ feed' = feed
               /\ score' = score
               /\ signal' = signal
               /\ hold_counter' = hold_counter
               /\ order' = order]_vars

\* A strategy step has been taken with the flag set: the flag is set after
\* the step and the step has submitted nothing.
C24_Witness ==
    /\ pc = "broker"
    /\ bar >= 2
    /\ order # NoOrder
    /\ pending = <<>>

\* C25: after every strategy step of a run (hold_days >= 1), the hold
\* counter is at least 0 and less than hold_days, and it is 0 whenever no
\* position is open.
C25_CounterInRange ==
    (pc \in {"broker", "done"} /\ bar >= 1 /\ hold_days >= 1)
        => /\ 0 <= hold_counter
           /\ hold_counter < hold_days
           /\ Flat => hold_counter = 0

\* A strategy step has left the counter at its highest value, above 0, with
\* the position open.
C25_Witness ==
    /\ pc = "broker"
    /\ bar >= 1
    /\ Holding_
    /\ hold_counter > 0
    /\ hold_counter = hold_days - 1

----------------------------------------------------------------------------
(* Properties of the transaction log of a run *)

\* The broker has executed nothing in the run: the cash and the position are
\* as cerebro was set up.
NothingExecuted == position = 0 /\ cash = initial_cash

\* C26: the transaction log agrees with the broker: every row written during
\* a run is the row of an order the broker completed, so a run in which the
\* broker has executed nothing ends with no row written.
C26_RowsAreCompletedOrders ==
    (pc = "done" /\ NothingExecuted) => transactions = <<>>

\* C27: within a run the recorded transactions strictly alternate, starting
\* with a buy: the odd rows are buys and the even rows are sells.
C27_RowsAlternate ==
    \A i \in 1..Len(transactions) :
        transactions[i].tx_type = (IF i % 2 = 1 THEN "buy" ELSE "sell")

\* The order next() submits on the current bar when it submits one.
SubmittedOrder ==
    IF position # 0
    THEN MarketOrder(FALSE, getsizing, close)
    ELSE MarketOrder(TRUE, BuySize(cash, close), close)

\* C28: a database write that fails while a trade is recorded does not change
\* the simulation: when next() submits an order and no row is written, the
\* order stands at the broker as on success, the in-flight flag holds it, the
\* hold counter is 0, cash and position are untouched and the run goes on;
\* the result of the run is computed from the broker alone.
C28_WriteFailureKeepsSimulation ==
    [][/\ (StrategyStep /\ Submits /\ transactions' = transactions)
            => /\ pending' = Append(pending, SubmittedOrder)
               /\ order' = <<SubmittedOrder>>
               /\ hold_counter' = 0
               /\ cash' = cash /\ position' = position
               /\ pc' = "broker"
       /\ (pc = "broker" /\ pc' = "done")
            => result' = backtest_result(portfolio_id, initial_cash, cash,
                                         position, close)]_vars

\* C28 witness: a sell is in flight with the hold counter reset and the
\* transactions table holds no sell row: its write failed.
C28_Witness ==
    /\ pc = "broker"
    /\ pending # <<>> /\ ~pending[1].isbuy
    /\ order = <<pending[1]>>
    /\ hold_counter = 0
    /\ \A i \in 1..Len(transactions) : transactions[i].tx_type # "sell"

----------------------------------------------------------------------------
(* Properties of the pages that take the email of a user *)

\* C29: the portfolio a backtest requested through /run_backtest writes to
\* is owned by the user whose email made the request.
C29_PortfolioOfRequestingUser ==
    (route = "run_backtest" /\ portfolio_id # None)
        => portfolios[portfolio_id].user_id = email

----------------------------------------------------------------------------
(* Properties of the trade route on portfolios of any cash balance *)

\* C30: run_portfolio_backtest gives a result for every portfolio that
\* exists and every cash balance that is not negative, 0 included: a run of
\* the trade route that reached the end of its data has a result.
C30_ResultForEveryCashBalance ==
    (pc = "done" /\ route = "trade") => result.kind = "result"

====
